---- MODULE Spec2Model ----
(***************************************************************************)
(* Inventory ledger of the ERP server: the handlers that change an item's  *)
(* current_stock and write stock adjustment rows, over a PostgreSQL store. *)
(* Every awaited database statement of a handler is one step, so that      *)
(* requests of different clients interleave between statements.  A         *)
(* db.transaction block buffers its writes until its commit, holds the     *)
(* row locks of the rows it has updated, and discards the buffer when the  *)
(* callback throws (READ COMMITTED, PostgreSQL's default isolation).       *)
(***************************************************************************)
EXTENDS Integers, Sequences, FiniteSets, TLC

(* ------------------------------ bounds -------------------------------- *)

\* Largest current_stock of an item in the initial database.
MaxStock == 2
\* Largest absolute quantity_change given to createStockAdjustment.
MaxDelta == 2
\* Number of handler calls in a run of the sequential specifications.
MaxCalls == 3
\* Number of handler calls in a run of the concurrent specifications.
MaxConcCalls == 2
\* Largest quantity_used of a work order line in the initial database.
MaxUsed == 1
\* Largest quantity of a purchase order line in the initial database.
MaxQty == 2
\* Largest number of lines of a work order or purchase order.
MaxLines == 2
\* Number of calls in a run of the ledger and its query.
MaxLedgerCalls == 4
\* Largest number of work orders and of purchase orders.
MaxOrders == 3
\* Largest min_stock_level that a caller gives.
MaxMin == 2
\* Largest number of items: createItem is not called beyond it.
MaxItems == 4

(* --------------------------- value domains ---------------------------- *)

\* The concurrent requests (clients) the model follows.
Procs == {1, 2}

\* Item ids present in the items table.
ItemIds == {1, 2}
\* An item id no row of the items table has.
MissingItem == 3
\* Work order and purchase order ids present, and an absent one.
WoIds == {1}
PoIds == {1}
MissingOrder == 2

\* SQL NULL of an integer and of a text column; `x || null` of the handlers
\* maps an absent (and a zero) reference_id to NULL.
NullId == 0
NullStr == "NULL"
\* An optional input field that the caller left out (undefined).
Undefined == -1
UndefinedStr == "undefined"

\* Rows of the users table, and the ids callers pass as acting user:
\* "admin-user" is updateItem's default createdBy, which the router uses.
\* "user-2" has created the work order of the initial database.
KnownUsers == {"user-1", "user-2"}
Actors == {"user-1", "admin-user"}

workOrderStatusEnum == {"CREATED", "IN_PROGRESS", "COMPLETED", "CANCELLED"}
purchaseOrderStatusEnum ==
  {"DRAFT", "PENDING", "APPROVED", "ORDERED", "RECEIVED", "CANCELLED"}
\* The adjustment types the callers of createStockAdjustment pass.
AdjustmentTypes == {"ADJUSTMENT"}

(* ------------------------------- state -------------------------------- *)

VARIABLES
  usersTable,              \* set of user ids
  itemsTable,              \* item id -> [sku, current_stock, min_stock_level, is_active]
  nextItemId,              \* the serial of items.id
  stockAdjustmentsTable,   \* set of committed adjustment rows
  nextAdjustmentId,        \* the serial of stock_adjustments.id
  workOrdersTable,         \* work order id -> [status, created_by, completed_date, wo_number]
  workOrderItemsTable,     \* work order id -> sequence of [item_id, quantity_used]
  purchaseOrdersTable,     \* purchase order id -> [status, approved_by, po_number]
  purchaseOrderItemsTable, \* purchase order id -> sequence of [item_id, quantity, received_quantity]
  pc,                      \* request -> the statement it executes next
  loc,                     \* request -> the handler's inputs and locals
  tx,                      \* request -> its open transaction (writes not yet committed)
  result,                  \* request -> outcome of its last call
  snap,                    \* request -> the database when its last call started
  returned,                \* request -> what its last query returned
  calls,                   \* calls that may still be started
  observed,                \* whether loc, result and snap outlive the call
  initial_stock            \* item id -> current_stock when the item was created

dbVars == <<usersTable, itemsTable, nextItemId, stockAdjustmentsTable, nextAdjustmentId,
            workOrdersTable, workOrderItemsTable, purchaseOrdersTable,
            purchaseOrderItemsTable>>
vars == <<dbVars, pc, loc, tx, result, snap, returned, calls, observed, initial_stock>>

\* What no statement of the stock and order handlers changes: the users, the
\* lines of the work orders, the serial of the items, the answer of the last
\* query, and what the run observes.
fixed == <<usersTable, workOrderItemsTable, nextItemId, returned, observed, initial_stock>>

woVars == <<workOrdersTable, workOrderItemsTable>>
poVars == <<purchaseOrdersTable, purchaseOrderItemsTable>>

(* ------------------------------ helpers ------------------------------- *)

\* The optional itemId of a query: an item, an absent id, or undefined.
AnyItemOrNone == ItemIds \cup {MissingItem, Undefined}


(* --------------------------- order numbers ---------------------------- *)

\* The year of the clock (new Date().getFullYear()) during the run, and the
\* years that stored orders are of.
currentYear == 2026
Years == {currentYear - 1, currentYear}

\* The width that padStart gives the sequence part, and that the regular
\* expression of generateWONumber takes.
SeqWidth == 6

\* n.toString(): the decimal digits of a natural number.
RECURSIVE toString(_)
toString(n) == IF n < 10 THEN <<n>> ELSE Append(toString(n \div 10), n % 10)

\* digits.padStart(width, '0').
RECURSIVE padStart(_, _)
padStart(digits, width) ==
  IF Len(digits) >= width THEN digits ELSE padStart(<<0>> \o digits, width)

\* parseInt(digits, 10) of a string of digits that is not empty.
RECURSIVE parseInt(_)
parseInt(digits) ==
  IF Len(digits) = 0 THEN 0
  ELSE 10 * parseInt(SubSeq(digits, 1, Len(digits) - 1)) + digits[Len(digits)]

\* The string `${prefix}-${year}-${digits}` by its parts.
OrderNumber(prefix, year, n) ==
  [prefix |-> prefix, year |-> year, digits |-> padStart(toString(n), SeqWidth)]

\* No order number.
NoNumber == [prefix |-> NullStr, year |-> 0, digits |-> <<>>]

\* The order of two strings of digits as strings.
RECURSIVE StringLess(_, _)
StringLess(a, b) ==
  IF Len(a) = 0 THEN Len(b) > 0
  ELSE IF Len(b) = 0 THEN FALSE
  ELSE IF a[1] # b[1] THEN a[1] < b[1]
  ELSE StringLess(Tail(a), Tail(b))

\* The largest of a set of natural numbers that is not empty.
Max(S) == CHOOSE n \in S : \A m \in S : m <= n

(* ------------------------------ requests ------------------------------ *)

\* A work order row that a transaction has not written.
NoWorkOrderWrite == [status |-> "unwritten", created_by |-> NullStr, completed_date |-> NullStr,
                     wo_number |-> NoNumber]

\* No open transaction: no item row (items: the item rows it has updated,
\* stock: what it has set their current_stock to) and no work order row
\* written, no row inserted.
NoTx == [active |-> FALSE, items |-> {}, stock |-> [i \in ItemIds |-> 0], rows |-> {},
         wo |-> [w \in WoIds |-> NoWorkOrderWrite]]

NoLoc == [op |-> "none", id |-> 0, qty |-> 0, adjustment_type |-> NullStr,
          status |-> UndefinedStr, actor |-> NullStr, previousStock |-> 0,
          newStock |-> 0, rest |-> <<>>, isCompleting |-> FALSE,
          created_by |-> NullStr, reason |-> NullStr, processed |-> 0,
          sku |-> UndefinedStr, min_stock_level |-> Undefined, is_active |-> {},
          threshold_multiplier |-> [num |-> 1, den |-> 1]]

\* The database as a call finds it, kept to compare with what the call leaves.
Database == [items |-> itemsTable, adjustments |-> stockAdjustmentsTable,
             workOrders |-> workOrdersTable, purchaseOrders |-> purchaseOrdersTable,
             purchaseOrderItems |-> purchaseOrderItemsTable]

\* A request may start a call when it runs none and the run's budget allows.
CanStart(p) == pc[p] = "idle" /\ calls > 0

\* Entering a handler: inputs in loc, the database remembered.
Start(p) ==
  /\ CanStart(p)
  /\ calls' = calls - 1
  /\ snap' = [snap EXCEPT ![p] = IF observed THEN Database ELSE @]

\* The handler returns (res = "ok") or throws (res names the error), its
\* locals being l.  An observed run keeps them with the outcome.
FinishWith(p, res, l) ==
  /\ pc' = [pc EXCEPT ![p] = "idle"]
  /\ result' = [result EXCEPT ![p] = IF observed THEN res ELSE @]
  /\ loc' = [loc EXCEPT ![p] = IF observed THEN l ELSE NoLoc]

Finish(p, res) == FinishWith(p, res, loc[p])

\* The handler goes on to its next statement, its locals being l.
GotoWith(p, label, l) ==
  /\ pc' = [pc EXCEPT ![p] = label]
  /\ loc' = [loc EXCEPT ![p] = l]
  /\ UNCHANGED result

Goto(p, label) == GotoWith(p, label, loc[p])

\* A row of items is locked against request p while another request's open
\* transaction has updated it.
ItemLocked(p, i) ==
  \E q \in Procs \ {p} : tx[q].active /\ i \in tx[q].items

WorkOrderLocked(p, w) ==
  \E q \in Procs \ {p} : tx[q].active /\ tx[q].wo[w] # NoWorkOrderWrite

\* A SELECT that does not see the transaction's own writes.
StockSeenCommitted(p, i) == itemsTable[i].current_stock

\* current_stock as request p's next SELECT sees it: its own uncommitted
\* write if it has one, the committed value otherwise.
StockSeenBy(p, i) ==
  IF tx[p].active /\ i \in tx[p].items
    THEN tx[p].stock[i]
    ELSE itemsTable[i].current_stock

\* The foreign key stock_adjustments.created_by -> users.id.
ForeignKeyFails(createdBy) == createdBy \notin usersTable

\* A stock adjustment row.
AdjustmentRow(id, item_id, type, change, previous, new, reason, refId, refType, by) ==
  [id |-> id, item_id |-> item_id, adjustment_type |-> type,
   quantity_change |-> change, previous_stock |-> previous, new_stock |-> new,
   reason |-> reason, reference_id |-> refId, reference_type |-> refType,
   created_by |-> by]

(* --------------------------- initial states --------------------------- *)

\* A row of items: the columns that the handlers of the model read.
ItemRow(sku, current_stock, min_stock_level, is_active) ==
  [sku |-> sku, current_stock |-> current_stock,
   min_stock_level |-> min_stock_level, is_active |-> is_active]

\* A work order as createWorkOrder inserts it.
WorkOrderRow(created_by, wo_number) ==
  [status |-> "CREATED", created_by |-> created_by, completed_date |-> NullStr,
   wo_number |-> wo_number]

\* A purchase order as createPurchaseOrder inserts it.
PurchaseOrderRow(po_number) ==
  [status |-> "DRAFT", approved_by |-> NullStr, po_number |-> po_number]

\* The SKUs of the items that the database starts with.
InitialSku(i) == IF i = 1 THEN "SKU-1" ELSE "SKU-2"

\* The items before the first call: distinct SKUs, the column defaults for
\* min_stock_level (0) and is_active (true).
InitialItems(stock) == [i \in ItemIds |-> ItemRow(InitialSku(i), stock[i], 0, TRUE)]

WorkOrderLine == [item_id : ItemIds, quantity_used : 0..MaxUsed]
PurchaseOrderLine ==
  {l \in [item_id : ItemIds, quantity : 1..MaxQty, received_quantity : 0..MaxQty] :
     l.received_quantity <= l.quantity}

SeqUpTo(S, n) == UNION {[1..k -> S] : k \in 0..n}

\* The database before the first call: items with some stock and no
\* adjustment rows, one work order in CREATED with its lines, one purchase
\* order in DRAFT with its lines.  budget is the number of calls of the run.
InitWith(stocks, woLines, poLines, budget, keep) ==
  /\ usersTable = KnownUsers
  /\ initial_stock \in stocks
  /\ itemsTable = InitialItems(initial_stock)
  /\ nextItemId = Cardinality(ItemIds) + 1
  /\ returned = [p \in Procs |-> {}]
  /\ stockAdjustmentsTable = {}
  /\ nextAdjustmentId = 1
  /\ workOrdersTable = [w \in WoIds |->
       WorkOrderRow("user-2", OrderNumber("WO", currentYear, w))]
  /\ workOrderItemsTable \in [WoIds -> woLines]
  /\ purchaseOrdersTable = [o \in PoIds |->
       PurchaseOrderRow(OrderNumber("PO", currentYear, o))]
  /\ purchaseOrderItemsTable \in [PoIds -> poLines]
  /\ pc = [p \in Procs |-> "idle"]
  /\ loc = [p \in Procs |-> NoLoc]
  /\ tx = [p \in Procs |-> NoTx]
  /\ result = [p \in Procs |-> "none"]
  /\ snap = [p \in Procs |-> <<>>]
  /\ calls = budget
  /\ observed = keep


(* ----------------------------- transactions --------------------------- *)

\* BEGIN of db.transaction.
Begin(p) == tx' = [tx EXCEPT ![p] = [NoTx EXCEPT !.active = TRUE]]

\* The transaction callback returned: COMMIT makes the buffered writes the
\* committed rows and releases the locks.
Commit(p) ==
  /\ itemsTable' = [i \in DOMAIN itemsTable |->
       IF i \in tx[p].items
         THEN [itemsTable[i] EXCEPT !.current_stock = tx[p].stock[i]]
         ELSE itemsTable[i]]
  /\ stockAdjustmentsTable' = stockAdjustmentsTable \cup tx[p].rows
  /\ workOrdersTable' = [w \in DOMAIN workOrdersTable |->
       IF tx[p].wo[w] # NoWorkOrderWrite THEN tx[p].wo[w] ELSE workOrdersTable[w]]
  /\ tx' = [tx EXCEPT ![p] = NoTx]

\* A failed callback whose writes are kept, as without db.transaction.
RollbackKeepingWrites(p) == Commit(p)

\* The transaction callback threw: ROLLBACK discards the buffered writes.
Rollback(p) ==
  /\ UNCHANGED <<itemsTable, stockAdjustmentsTable, workOrdersTable>>
  /\ tx' = [tx EXCEPT ![p] = NoTx]

\* UPDATE items SET current_stock = newStock inside request p's transaction.
TxUpdateStock(p, i, newStock) ==
  tx' = [tx EXCEPT ![p].items = @ \cup {i}, ![p].stock[i] = newStock]

\* INSERT INTO stock_adjustments inside request p's transaction.
TxInsert(p, row) ==
  /\ tx' = [tx EXCEPT ![p].rows = @ \cup {row}]
  /\ nextAdjustmentId' = nextAdjustmentId + 1

\* An INSERT that replaces the rows of the table.
InsertOverwriting(row) ==
  /\ stockAdjustmentsTable' = {row}
  /\ nextAdjustmentId' = nextAdjustmentId + 1

\* INSERT INTO stock_adjustments outside a transaction.
Insert(row) ==
  /\ stockAdjustmentsTable' = stockAdjustmentsTable \cup {row}
  /\ nextAdjustmentId' = nextAdjustmentId + 1

\* A completion that processes every line.
SkipUnusedNever(lines) == lines

\* The lines of a work order still to process: completion passes over the
\* lines with quantity_used = 0 without a statement.
RECURSIVE SkipUnused(_)
SkipUnused(lines) ==
  IF lines = <<>> THEN lines
  ELSE IF Head(lines).quantity_used > 0 THEN lines
  ELSE SkipUnused(Tail(lines))

(* ----------------------- createStockAdjustment ------------------------ *)

\* The adjustment applied with the wrong sign.
NewStockSubtracting(previousStock, quantity_change) == previousStock - quantity_change

\* The stock after the adjustment.
NewStock(previousStock, quantity_change) == previousStock + quantity_change

\* A validation that also rejects a new stock of zero.
NegativeStockOrZero(newStock) == newStock <= 0

\* A validation that accepts every new stock.
NegativeStockNever(newStock) == FALSE

\* The validation of the new stock.
NegativeStock(newStock) == newStock < 0

\* SELECT the item, compute and validate the new stock.
createStockAdjustment(p, input, createdBy) ==
  LET found == input.item_id \in DOMAIN itemsTable
      previousStock == IF found THEN itemsTable[input.item_id].current_stock ELSE 0
      newStock == NewStock(previousStock, input.quantity_change)
      l == [NoLoc EXCEPT !.op = "createStockAdjustment", !.id = input.item_id,
                         !.qty = input.quantity_change,
                         !.adjustment_type = input.adjustment_type,
                         !.actor = createdBy, !.created_by = createdBy,
                         !.reason = "input.reason",
                         !.previousStock = previousStock, !.newStock = newStock]
  IN /\ Start(p)
     /\ IF ~found THEN FinishWith(p, "NotFound", l)
        ELSE IF NegativeStock(newStock) THEN FinishWith(p, "InvalidOperation", l)
        ELSE GotoWith(p, "csa_insert", l)
     /\ UNCHANGED <<itemsTable, stockAdjustmentsTable, nextAdjustmentId, workOrdersTable,
                    poVars, tx, fixed>>

\* INSERT the adjustment row.
createStockAdjustmentInsert(p) ==
  /\ pc[p] = "csa_insert"
  /\ IF ForeignKeyFails(loc[p].created_by)
       THEN /\ Finish(p, "ForeignKey")
            /\ UNCHANGED <<stockAdjustmentsTable, nextAdjustmentId>>
       ELSE /\ Insert(AdjustmentRow(nextAdjustmentId, loc[p].id, loc[p].adjustment_type,
                                    loc[p].qty, loc[p].previousStock, loc[p].newStock,
                                    loc[p].reason, NullId, NullStr, loc[p].created_by))
            /\ Goto(p, "csa_update")
  /\ UNCHANGED <<itemsTable, workOrdersTable, poVars, tx, snap, calls, fixed>>

\* UPDATE the item's current_stock.
createStockAdjustmentUpdate(p) ==
  /\ pc[p] = "csa_update"
  /\ ~ItemLocked(p, loc[p].id)
  /\ itemsTable' = [itemsTable EXCEPT ![loc[p].id].current_stock = loc[p].newStock]
  /\ Finish(p, "ok")
  /\ UNCHANGED <<stockAdjustmentsTable, nextAdjustmentId, workOrdersTable, poVars, tx,
                 snap, calls, fixed>>

CreateStockAdjustmentInput(items) ==
  [item_id : items, adjustment_type : AdjustmentTypes,
   quantity_change : (0 - MaxDelta)..MaxDelta]

CreateStockAdjustmentCall(p, items) ==
  \E input \in CreateStockAdjustmentInput(items), createdBy \in Actors :
    createStockAdjustment(p, input, createdBy)

CreateStockAdjustmentStep(p) ==
  \/ createStockAdjustmentInsert(p)
  \/ createStockAdjustmentUpdate(p)

(* ----------------------------- updateItem ----------------------------- *)

\* Whether the update changes the stock, so that an adjustment row is due.
StockChanged(inputStock, previousStock) ==
  inputStock # Undefined /\ inputStock # previousStock

\* SELECT the item.
updateItem(p, input, createdBy) ==
  LET found == input.id \in DOMAIN itemsTable
      l == [NoLoc EXCEPT !.op = "updateItem", !.id = input.id,
                         !.qty = input.current_stock, !.actor = createdBy,
                         !.created_by = createdBy, !.sku = input.sku,
                         !.min_stock_level = input.min_stock_level,
                         !.is_active = input.is_active,
                         !.reason = "Manual stock adjustment via item update",
                         !.previousStock =
                            IF found THEN itemsTable[input.id].current_stock ELSE 0]
  IN /\ Start(p)
     /\ IF ~found THEN FinishWith(p, "NotFound", l) ELSE GotoWith(p, "ui_update", l)
     /\ UNCHANGED <<itemsTable, stockAdjustmentsTable, nextAdjustmentId, workOrdersTable,
                    poVars, tx, fixed>>

\* A unique index that is not enforced.
UniqueViolationNever(sku, id) == FALSE

\* The unique index on items.sku: a row other than row id has the SKU.
UniqueViolation(sku, id) ==
  \E j \in DOMAIN itemsTable \ {id} : itemsTable[j].sku = sku

\* The row of an item with the fields that the input gives set: an absent
\* field (undefined, for is_active the empty set) leaves the column.
UpdatedItem(item, l) ==
  ItemRow(IF l.sku # UndefinedStr THEN l.sku ELSE item.sku,
          IF l.qty # Undefined THEN l.qty ELSE item.current_stock,
          IF l.min_stock_level # Undefined THEN l.min_stock_level ELSE item.min_stock_level,
          IF l.is_active # {} THEN TRUE \in l.is_active ELSE item.is_active)

\* UPDATE the item with the given fields; the statement fails, changing
\* nothing, when the new SKU is that of another item.
updateItemUpdate(p) ==
  /\ pc[p] = "ui_update"
  /\ ~ItemLocked(p, loc[p].id)
  /\ IF loc[p].sku # UndefinedStr /\ UniqueViolation(loc[p].sku, loc[p].id)
       THEN /\ Finish(p, "Conflict")
            /\ UNCHANGED itemsTable
       ELSE /\ itemsTable' = [itemsTable EXCEPT ![loc[p].id] = UpdatedItem(@, loc[p])]
            /\ IF StockChanged(loc[p].qty, loc[p].previousStock)
                 THEN Goto(p, "ui_insert")
                 ELSE Finish(p, "ok")
  /\ UNCHANGED <<stockAdjustmentsTable, nextAdjustmentId, workOrdersTable, poVars, tx,
                 snap, calls, fixed>>

\* INSERT the ADJUSTMENT row of the stock change.
updateItemInsert(p) ==
  /\ pc[p] = "ui_insert"
  /\ IF ForeignKeyFails(loc[p].created_by)
       THEN /\ Finish(p, "ForeignKey")
            /\ UNCHANGED <<stockAdjustmentsTable, nextAdjustmentId>>
       ELSE /\ Insert(AdjustmentRow(nextAdjustmentId, loc[p].id, "ADJUSTMENT",
                                    loc[p].qty - loc[p].previousStock,
                                    loc[p].previousStock, loc[p].qty, loc[p].reason,
                                    NullId, NullStr, loc[p].created_by))
            /\ Finish(p, "ok")
  /\ UNCHANGED <<itemsTable, workOrdersTable, poVars, tx, snap, calls, fixed>>

\* The inputs that give at most current_stock.
UpdateItemInput(items) ==
  [id : items, current_stock : {Undefined} \cup (0..MaxStock), sku : {UndefinedStr},
   min_stock_level : {Undefined}, is_active : {{}}]

UpdateItemCall(p, items) ==
  \E input \in UpdateItemInput(items), createdBy \in Actors : updateItem(p, input, createdBy)

UpdateItemStep(p) ==
  \/ updateItemUpdate(p)
  \/ updateItemInsert(p)

(* ----------------------------- createItem ----------------------------- *)

\* The SKUs a caller may give.
Skus == {"SKU-1", "SKU-2", "SKU-3"}

createItemInputSchema ==
  [sku : Skus, current_stock : 0..MaxStock, min_stock_level : 0..MaxMin]

\* An item created without the stock of the input.
NewItemWithoutStock(input) == ItemRow(input.sku, 0, input.min_stock_level, TRUE)

\* The row that createItem inserts: active, with the stock of the input.
NewItem(input) == ItemRow(input.sku, input.current_stock, input.min_stock_level, TRUE)

\* createItem: one transaction with one INSERT; for an initial stock > 0 the
\* handler writes no adjustment row.  The serial gives the id and does not
\* go back when the INSERT fails on the unique index; the model stops
\* creating at MaxItems items.
createItem(p, input) ==
  LET l == [NoLoc EXCEPT !.op = "createItem", !.id = nextItemId, !.sku = input.sku,
                         !.qty = input.current_stock,
                         !.min_stock_level = input.min_stock_level]
  IN /\ Cardinality(DOMAIN itemsTable) < MaxItems
     /\ Start(p)
     /\ nextItemId' = nextItemId + 1
     /\ IF UniqueViolation(input.sku, NullId)
          THEN FinishWith(p, "Conflict", l) /\ UNCHANGED itemsTable
          ELSE /\ itemsTable' = (nextItemId :> NewItem(input)) @@ itemsTable
               /\ FinishWith(p, "ok", l)
     /\ UNCHANGED <<stockAdjustmentsTable, nextAdjustmentId, workOrdersTable, poVars, tx,
                    usersTable, workOrderItemsTable, returned, observed, initial_stock>>

CreateItemCall(p) == \E input \in createItemInputSchema : createItem(p, input)

\* The inputs of updateItem that give one field of the catalogue or none.
CatalogUpdateItemInput(items) ==
  {input \in [id : items, current_stock : {Undefined, 0, MaxStock},
              sku : {UndefinedStr} \cup Skus,
              min_stock_level : {Undefined} \cup (0..MaxMin),
              is_active : {{}, {TRUE}, {FALSE}}] :
     Cardinality({f \in {"stock", "sku", "min", "active"} :
                    \/ f = "stock" /\ input.current_stock # Undefined
                    \/ f = "sku" /\ input.sku # UndefinedStr
                    \/ f = "min" /\ input.min_stock_level # Undefined
                    \/ f = "active" /\ input.is_active # {}}) <= 1}

CatalogUpdateItemCall(p, items) ==
  \E input \in CatalogUpdateItemInput(items), createdBy \in Actors :
    updateItem(p, input, createdBy)

(* --------------------------- getLowStockItems -------------------------- *)

\* threshold_multiplier: a positive number, here a fraction num/den.
getLowStockItemsInputSchema ==
  {[num |-> 1, den |-> 2], [num |-> 1, den |-> 1], [num |-> 3, den |-> 2]}

\* A comparison that takes the whole part of the multiplier.
lowStockTruncating(item, m) ==
  /\ item.current_stock <= item.min_stock_level * (m.num \div m.den)
  /\ item.is_active

\* The WHERE clause: current_stock <= CAST(min_stock_level AS NUMERIC) *
\* threshold_multiplier, in exact arithmetic, AND is_active.
lowStock(item, m) ==
  /\ item.current_stock * m.den <= item.min_stock_level * m.num
  /\ item.is_active

\* getLowStockItems: one SELECT; the rows returned, by their ids.
getLowStockItems(p, threshold_multiplier) ==
  LET l == [NoLoc EXCEPT !.op = "getLowStockItems",
                         !.threshold_multiplier = threshold_multiplier]
  IN /\ Start(p)
     /\ returned' = [returned EXCEPT ![p] =
          {i \in DOMAIN itemsTable : lowStock(itemsTable[i], threshold_multiplier)}]
     /\ FinishWith(p, "ok", l)
     /\ UNCHANGED <<itemsTable, nextItemId, stockAdjustmentsTable, nextAdjustmentId,
                    workOrdersTable, poVars, tx, usersTable, workOrderItemsTable,
                    observed, initial_stock>>

GetLowStockItemsCall(p) ==
  \E threshold_multiplier \in getLowStockItemsInputSchema :
    getLowStockItems(p, threshold_multiplier)

(* -------------------------- getStockAdjustments ------------------------ *)

\* created_at (defaultNow) of a row that a statement of its own has inserted,
\* as createStockAdjustment does: the time of that statement, so that such
\* rows are in the order of created_at as in the order of their serial ids.
created_at(row) == row.id

\* The rows in ascending order of created_at.
RECURSIVE OldestFirst(_)
OldestFirst(rows) ==
  IF rows = {} THEN <<>>
  ELSE LET first == CHOOSE r \in rows : \A q \in rows : created_at(r) <= created_at(q)
       IN <<first>> \o OldestFirst(rows \ {first})

\* ORDER BY created_at DESC.
RECURSIVE NewestFirst(_)
NewestFirst(rows) ==
  IF rows = {} THEN <<>>
  ELSE LET first == CHOOSE r \in rows : \A q \in rows : created_at(r) >= created_at(q)
       IN <<first>> \o NewestFirst(rows \ {first})

\* getStockAdjustments: one SELECT of the rows, INNER JOIN their item and
\* their user, of the given item when itemId is defined, newest first.
getStockAdjustments(p, itemId) ==
  LET l == [NoLoc EXCEPT !.op = "getStockAdjustments", !.id = itemId]
      joined == {r \in stockAdjustmentsTable :
                   r.item_id \in DOMAIN itemsTable /\ r.created_by \in usersTable}
      selected == IF itemId # Undefined THEN {r \in joined : r.item_id = itemId}
                  ELSE joined
  IN /\ Start(p)
     /\ returned' = [returned EXCEPT ![p] = NewestFirst(selected)]
     /\ FinishWith(p, "ok", l)
     /\ UNCHANGED <<itemsTable, nextItemId, stockAdjustmentsTable, nextAdjustmentId,
                    workOrdersTable, poVars, tx, usersTable, workOrderItemsTable,
                    observed, initial_stock>>

GetStockAdjustmentsCall(p) ==
  \E itemId \in AnyItemOrNone : getStockAdjustments(p, itemId)

(* -------------------------- completeWorkOrder ------------------------- *)

\* A completion that does not look at a COMPLETED status.
AlreadyCompletedNever(status) == FALSE

\* The two status preconditions of completeWorkOrder.
AlreadyCompleted(status) == status = "COMPLETED"
IsCancelled(status) == status = "CANCELLED"

\* A stock check that lets every deduction through.
InsufficientStockNever(current_stock, quantityToDeduct) == FALSE

\* The stock check of completeWorkOrder.
InsufficientStock(current_stock, quantityToDeduct) == current_stock < quantityToDeduct

\* BEGIN; SELECT the work order, check its status, SELECT its lines.
completeWorkOrder(p, workOrderId, completedBy) ==
  LET found == workOrderId \in DOMAIN workOrdersTable
      lines == IF found THEN SkipUnused(workOrderItemsTable[workOrderId]) ELSE <<>>
      l == [NoLoc EXCEPT !.op = "completeWorkOrder", !.id = workOrderId,
                         !.status = "COMPLETED", !.actor = completedBy,
                         !.created_by = completedBy,
                         !.reason = "Consumed in work order", !.rest = lines]
  IN /\ Start(p)
     /\ IF ~found THEN FinishWith(p, "NotFound", l) /\ UNCHANGED tx
        ELSE IF AlreadyCompleted(workOrdersTable[workOrderId].status)
          THEN FinishWith(p, "AlreadyCompleted", l) /\ UNCHANGED tx
        ELSE IF IsCancelled(workOrdersTable[workOrderId].status)
          THEN FinishWith(p, "InvalidState", l) /\ UNCHANGED tx
        ELSE /\ Begin(p)
             /\ GotoWith(p, IF lines = <<>> THEN "cwo_status" ELSE "cwo_item", l)
     /\ UNCHANGED <<itemsTable, stockAdjustmentsTable, nextAdjustmentId, workOrdersTable,
                    poVars, fixed>>

\* SELECT the item of the next line and check its stock.
completeWorkOrderSelectItem(p) ==
  /\ pc[p] = "cwo_item"
  /\ LET line == Head(loc[p].rest) IN
       IF line.item_id \notin DOMAIN itemsTable
         THEN Rollback(p) /\ Finish(p, "ItemNotFound")
       ELSE IF InsufficientStock(StockSeenBy(p, line.item_id), line.quantity_used)
         THEN Rollback(p) /\ Finish(p, "InsufficientStock")
       ELSE /\ GotoWith(p, "cwo_update",
                 [loc[p] EXCEPT !.previousStock = StockSeenBy(p, line.item_id),
                                !.newStock = StockSeenBy(p, line.item_id)
                                               - line.quantity_used])
            /\ UNCHANGED <<tx, itemsTable, stockAdjustmentsTable, workOrdersTable>>
  /\ UNCHANGED <<nextAdjustmentId, poVars, snap, calls, fixed>>

\* UPDATE the item's current_stock.
completeWorkOrderUpdateItem(p) ==
  /\ pc[p] = "cwo_update"
  /\ ~ItemLocked(p, Head(loc[p].rest).item_id)
  /\ TxUpdateStock(p, Head(loc[p].rest).item_id, loc[p].newStock)
  /\ Goto(p, "cwo_insert")
  /\ UNCHANGED <<itemsTable, stockAdjustmentsTable, nextAdjustmentId, workOrdersTable,
                 poVars, snap, calls, fixed>>

\* INSERT the CONSUMED adjustment row.
completeWorkOrderInsert(p) ==
  /\ pc[p] = "cwo_insert"
  /\ LET line == Head(loc[p].rest)
         rest == SkipUnused(Tail(loc[p].rest))
     IN IF ForeignKeyFails(loc[p].created_by)
          THEN Rollback(p) /\ Finish(p, "ForeignKey") /\ UNCHANGED nextAdjustmentId
          ELSE /\ TxInsert(p, AdjustmentRow(nextAdjustmentId, line.item_id, "CONSUMED",
                                0 - line.quantity_used, loc[p].previousStock,
                                loc[p].newStock, loc[p].reason, loc[p].id, "work_order",
                                loc[p].created_by))
               /\ GotoWith(p, IF rest = <<>> THEN "cwo_status" ELSE "cwo_item",
                           [loc[p] EXCEPT !.rest = rest, !.processed = @ + 1])
               /\ UNCHANGED <<itemsTable, stockAdjustmentsTable, workOrdersTable>>
  /\ UNCHANGED <<poVars, snap, calls, fixed>>

\* UPDATE the work order: status COMPLETED, completed_date now.
completeWorkOrderUpdateStatus(p) ==
  /\ pc[p] = "cwo_status"
  /\ ~WorkOrderLocked(p, loc[p].id)
  /\ tx' = [tx EXCEPT ![p].wo[loc[p].id] =
              [workOrdersTable[loc[p].id] EXCEPT !.status = "COMPLETED",
                                                !.completed_date = "now"]]
  /\ Goto(p, "cwo_commit")
  /\ UNCHANGED <<itemsTable, stockAdjustmentsTable, nextAdjustmentId, workOrdersTable,
                 poVars, snap, calls, fixed>>

\* COMMIT.
completeWorkOrderCommit(p) ==
  /\ pc[p] = "cwo_commit"
  /\ Commit(p)
  /\ Finish(p, "ok")
  /\ UNCHANGED <<nextAdjustmentId, poVars, snap, calls, fixed>>

CompleteWorkOrderCall(p) ==
  \E workOrderId \in WoIds \cup {MissingOrder}, completedBy \in Actors :
    completeWorkOrder(p, workOrderId, completedBy)

CompleteWorkOrderStep(p) ==
  \/ completeWorkOrderSelectItem(p)
  \/ completeWorkOrderUpdateItem(p)
  \/ completeWorkOrderInsert(p)
  \/ completeWorkOrderUpdateStatus(p)
  \/ completeWorkOrderCommit(p)

(* --------------------------- updateWorkOrder -------------------------- *)

\* Whether this update is the one that completes the work order.
isCompletingWorkOrder(inputStatus, currentStatus) ==
  inputStatus = "COMPLETED" /\ currentStatus # "COMPLETED"

\* The stock check of updateWorkOrder.
updateWorkOrderInsufficient(newStock) == newStock < 0

\* SELECT the work order and prepare the update data.  The handler takes no
\* acting user: actor is the caller's identity, which the handler never sees.
updateWorkOrder(p, input, actor) ==
  LET found == input.id \in DOMAIN workOrdersTable
      l == [NoLoc EXCEPT !.op = "updateWorkOrder", !.id = input.id,
                         !.status = input.status, !.actor = actor,
                         !.isCompleting =
                            /\ found
                            /\ isCompletingWorkOrder(input.status,
                                                     workOrdersTable[input.id].status)]
  IN /\ Start(p)
     /\ IF ~found THEN FinishWith(p, "NotFound", l) ELSE GotoWith(p, "uwo_update", l)
     /\ UNCHANGED <<itemsTable, stockAdjustmentsTable, nextAdjustmentId, workOrdersTable,
                    poVars, tx, fixed>>

\* BEGIN; UPDATE the work order with the update data; when completing,
\* SELECT its lines.
updateWorkOrderUpdate(p) ==
  /\ pc[p] = "uwo_update"
  /\ ~WorkOrderLocked(p, loc[p].id)
  /\ LET current == workOrdersTable[loc[p].id]
         updated == [current EXCEPT
                       !.status = IF loc[p].status # UndefinedStr
                                    THEN loc[p].status ELSE @,
                       !.completed_date = IF loc[p].isCompleting THEN "now" ELSE @]
         lines == IF loc[p].isCompleting
                    THEN SkipUnused(workOrderItemsTable[loc[p].id]) ELSE <<>>
     IN /\ tx' = [tx EXCEPT ![p] = [NoTx EXCEPT !.active = TRUE,
                                                !.wo[loc[p].id] = updated]]
        /\ GotoWith(p, IF lines = <<>> THEN "uwo_commit" ELSE "uwo_item",
                    [loc[p] EXCEPT !.created_by = updated.created_by,
                                   !.reason = "Consumed for work order",
                                   !.rest = lines])
  /\ UNCHANGED <<itemsTable, stockAdjustmentsTable, nextAdjustmentId, workOrdersTable,
                 poVars, snap, calls, fixed>>

\* SELECT the item of the next line and check its stock.
updateWorkOrderSelectItem(p) ==
  /\ pc[p] = "uwo_item"
  /\ LET line == Head(loc[p].rest) IN
       IF line.item_id \notin DOMAIN itemsTable
         THEN Rollback(p) /\ Finish(p, "ItemNotFound")
       ELSE IF updateWorkOrderInsufficient(StockSeenBy(p, line.item_id)
                                             - line.quantity_used)
         THEN Rollback(p) /\ Finish(p, "InsufficientStock")
       ELSE /\ GotoWith(p, "uwo_itemupdate",
                 [loc[p] EXCEPT !.previousStock = StockSeenBy(p, line.item_id),
                                !.newStock = StockSeenBy(p, line.item_id)
                                               - line.quantity_used])
            /\ UNCHANGED <<tx, itemsTable, stockAdjustmentsTable, workOrdersTable>>
  /\ UNCHANGED <<nextAdjustmentId, poVars, snap, calls, fixed>>

\* UPDATE the item's current_stock.
updateWorkOrderUpdateItem(p) ==
  /\ pc[p] = "uwo_itemupdate"
  /\ ~ItemLocked(p, Head(loc[p].rest).item_id)
  /\ TxUpdateStock(p, Head(loc[p].rest).item_id, loc[p].newStock)
  /\ Goto(p, "uwo_insert")
  /\ UNCHANGED <<itemsTable, stockAdjustmentsTable, nextAdjustmentId, workOrdersTable,
                 poVars, snap, calls, fixed>>

\* INSERT the CONSUMED adjustment row, created_by the work order's creator.
updateWorkOrderInsert(p) ==
  /\ pc[p] = "uwo_insert"
  /\ LET line == Head(loc[p].rest)
         rest == SkipUnused(Tail(loc[p].rest))
     IN IF ForeignKeyFails(loc[p].created_by)
          THEN Rollback(p) /\ Finish(p, "ForeignKey") /\ UNCHANGED nextAdjustmentId
          ELSE /\ TxInsert(p, AdjustmentRow(nextAdjustmentId, line.item_id, "CONSUMED",
                                0 - line.quantity_used, loc[p].previousStock,
                                loc[p].newStock, loc[p].reason, loc[p].id, "work_order",
                                loc[p].created_by))
               /\ GotoWith(p, IF rest = <<>> THEN "uwo_commit" ELSE "uwo_item",
                           [loc[p] EXCEPT !.rest = rest, !.processed = @ + 1])
               /\ UNCHANGED <<itemsTable, stockAdjustmentsTable, workOrdersTable>>
  /\ UNCHANGED <<poVars, snap, calls, fixed>>

\* COMMIT.
updateWorkOrderCommit(p) ==
  /\ pc[p] = "uwo_commit"
  /\ Commit(p)
  /\ Finish(p, "ok")
  /\ UNCHANGED <<nextAdjustmentId, poVars, snap, calls, fixed>>

\* The status field of the input: one of statuses, or left out.
UpdateWorkOrderInput(statuses) ==
  [id : WoIds \cup {MissingOrder}, status : statuses]

UpdateWorkOrderCall(p, statuses) ==
  \E input \in UpdateWorkOrderInput(statuses), actor \in Actors :
    updateWorkOrder(p, input, actor)

UpdateWorkOrderStep(p) ==
  \/ updateWorkOrderUpdate(p)
  \/ updateWorkOrderSelectItem(p)
  \/ updateWorkOrderUpdateItem(p)
  \/ updateWorkOrderInsert(p)
  \/ updateWorkOrderCommit(p)

(* ---------------------- updatePurchaseOrderStatus --------------------- *)

\* A receipt of the ordered quantity, whatever was received before.
quantityToReceiveAll(poItem) == poItem.quantity

\* What is still to receive of a purchase order line.
quantityToReceive(poItem) == poItem.quantity - poItem.received_quantity

\* approved_by set on every status change.
approvedByAlways(status, updatedBy, current) == updatedBy

\* approved_by after the update: the acting user on APPROVED, else unchanged.
approvedBy(status, updatedBy, current) ==
  IF status = "APPROVED" THEN updatedBy ELSE current

\* A receipt that records what it received this time, not the total.
receivedQuantityOfThisReceipt(poItem) == poItem.quantity - poItem.received_quantity

\* What the receipt sets a line's received_quantity to.
receivedQuantity(poItem) == poItem.quantity

\* The lines read without their received_quantity.
LinesOfNothingReceived(po) ==
  [k \in 1..Len(purchaseOrderItemsTable[po]) |->
     [idx |-> k, item_id |-> purchaseOrderItemsTable[po][k].item_id,
      quantity |-> purchaseOrderItemsTable[po][k].quantity,
      received_quantity |-> 0]]

\* The lines of a purchase order as a SELECT returns them, each with its place.
LinesOf(po) ==
  [k \in 1..Len(purchaseOrderItemsTable[po]) |->
     [idx |-> k, item_id |-> purchaseOrderItemsTable[po][k].item_id,
      quantity |-> purchaseOrderItemsTable[po][k].quantity,
      received_quantity |-> purchaseOrderItemsTable[po][k].received_quantity]]

\* SELECT the purchase order.
updatePurchaseOrderStatus(p, input, updatedBy) ==
  LET l == [NoLoc EXCEPT !.op = "updatePurchaseOrderStatus", !.id = input.id,
                         !.status = input.status, !.actor = updatedBy,
                         !.created_by = updatedBy,
                         !.reason = "Items received from Purchase Order"]
  IN /\ Start(p)
     /\ IF input.id \notin DOMAIN purchaseOrdersTable
          THEN FinishWith(p, "NotFound", l)
          ELSE GotoWith(p, "po_update", l)
     /\ UNCHANGED <<itemsTable, stockAdjustmentsTable, nextAdjustmentId, workOrdersTable,
                    poVars, tx, fixed>>

\* UPDATE the purchase order: the status, and approved_by on APPROVED.
updatePurchaseOrderStatusUpdate(p) ==
  /\ pc[p] = "po_update"
  /\ IF loc[p].status = "APPROVED" /\ ForeignKeyFails(loc[p].actor)
       THEN Finish(p, "ForeignKey") /\ UNCHANGED purchaseOrdersTable
       ELSE /\ purchaseOrdersTable' = [purchaseOrdersTable EXCEPT
                 ![loc[p].id].status = loc[p].status,
                 ![loc[p].id].approved_by =
                    approvedBy(loc[p].status, loc[p].actor, @)]
            /\ IF loc[p].status = "RECEIVED"
                 THEN Goto(p, "po_lines")
                 ELSE Finish(p, "ok")
  /\ UNCHANGED <<itemsTable, stockAdjustmentsTable, nextAdjustmentId, workOrdersTable,
                 purchaseOrderItemsTable, tx, snap, calls, fixed>>

\* SELECT the lines of the purchase order.
updatePurchaseOrderStatusSelectLines(p) ==
  /\ pc[p] = "po_lines"
  /\ IF LinesOf(loc[p].id) = <<>>
       THEN Finish(p, "ok")
       ELSE GotoWith(p, "po_item", [loc[p] EXCEPT !.rest = LinesOf(loc[p].id)])
  /\ UNCHANGED <<itemsTable, stockAdjustmentsTable, nextAdjustmentId, workOrdersTable,
                 poVars, tx, snap, calls, fixed>>

\* SELECT the item of the next line and compute its new stock.
updatePurchaseOrderStatusSelectItem(p) ==
  /\ pc[p] = "po_item"
  /\ LET poItem == Head(loc[p].rest) IN
       IF poItem.item_id \notin DOMAIN itemsTable
         THEN Finish(p, "ItemNotFound")
         ELSE GotoWith(p, "po_itemupdate",
                [loc[p] EXCEPT
                   !.previousStock = itemsTable[poItem.item_id].current_stock,
                   !.qty = quantityToReceive(poItem),
                   !.newStock = itemsTable[poItem.item_id].current_stock
                                  + quantityToReceive(poItem)])
  /\ UNCHANGED <<itemsTable, stockAdjustmentsTable, nextAdjustmentId, workOrdersTable,
                 poVars, tx, snap, calls, fixed>>

\* UPDATE the item's current_stock.
updatePurchaseOrderStatusUpdateItem(p) ==
  /\ pc[p] = "po_itemupdate"
  /\ ~ItemLocked(p, Head(loc[p].rest).item_id)
  /\ itemsTable' = [itemsTable EXCEPT
                      ![Head(loc[p].rest).item_id].current_stock = loc[p].newStock]
  /\ Goto(p, "po_lineupdate")
  /\ UNCHANGED <<stockAdjustmentsTable, nextAdjustmentId, workOrdersTable, poVars, tx,
                 snap, calls, fixed>>

\* After a line: the next line, or the end of the handler.
NextLine(p) ==
  LET l == [loc[p] EXCEPT !.rest = Tail(loc[p].rest), !.processed = @ + 1]
  IN IF Tail(loc[p].rest) = <<>> THEN FinishWith(p, "ok", l) ELSE GotoWith(p, "po_item", l)

\* UPDATE the line: received_quantity becomes quantity.
updatePurchaseOrderStatusUpdateLine(p) ==
  /\ pc[p] = "po_lineupdate"
  /\ LET poItem == Head(loc[p].rest) IN
       purchaseOrderItemsTable' = [purchaseOrderItemsTable EXCEPT
          ![loc[p].id][poItem.idx].received_quantity = receivedQuantity(poItem)]
  /\ IF loc[p].qty > 0 THEN Goto(p, "po_insert") ELSE NextLine(p)
  /\ UNCHANGED <<itemsTable, stockAdjustmentsTable, nextAdjustmentId, workOrdersTable,
                 purchaseOrdersTable, tx, snap, calls, fixed>>

\* INSERT the RECEIVED adjustment row.
updatePurchaseOrderStatusInsert(p) ==
  /\ pc[p] = "po_insert"
  /\ LET poItem == Head(loc[p].rest) IN
       IF ForeignKeyFails(loc[p].created_by)
         THEN /\ Finish(p, "ForeignKey")
              /\ UNCHANGED <<stockAdjustmentsTable, nextAdjustmentId>>
         ELSE /\ Insert(AdjustmentRow(nextAdjustmentId, poItem.item_id, "RECEIVED",
                                      loc[p].qty, loc[p].previousStock, loc[p].newStock,
                                      loc[p].reason, loc[p].id, "purchase_order",
                                      loc[p].created_by))
              /\ NextLine(p)
  /\ UNCHANGED <<itemsTable, workOrdersTable, poVars, tx, snap, calls, fixed>>

UpdatePurchaseOrderStatusInput(statuses) ==
  [id : PoIds \cup {MissingOrder}, status : statuses]

UpdatePurchaseOrderStatusCall(p, statuses) ==
  \E input \in UpdatePurchaseOrderStatusInput(statuses), updatedBy \in Actors :
    updatePurchaseOrderStatus(p, input, updatedBy)

UpdatePurchaseOrderStatusStep(p) ==
  \/ updatePurchaseOrderStatusUpdate(p)
  \/ updatePurchaseOrderStatusSelectLines(p)
  \/ updatePurchaseOrderStatusSelectItem(p)
  \/ updatePurchaseOrderStatusUpdateItem(p)
  \/ updatePurchaseOrderStatusUpdateLine(p)
  \/ updatePurchaseOrderStatusInsert(p)

(* ------------------------- createPurchaseOrder ------------------------ *)

\* The lines of the input: item and ordered quantity (a positive integer).
CreatePurchaseOrderInput ==
  SeqUpTo([item_id : ItemIds \cup {MissingItem}, quantity : 1..MaxQty], MaxLines)

\* A filter that takes the orders of every year.
startsWithAnyYear(po_number, prefix, year) == po_number.prefix = prefix

\* po_number.startsWith(`PO-${currentYear}-`).
startsWith(po_number, prefix, year) ==
  po_number.prefix = prefix /\ po_number.year = year

\* The PO number of the next order: the numbers of the year, the part after
\* the prefix parsed, the largest plus one, or one when there is none.
nextPoNumber ==
  LET currentYearPOs ==
        {parseInt(purchaseOrdersTable[o].po_number.digits) :
           o \in {o \in DOMAIN purchaseOrdersTable :
                    startsWith(purchaseOrdersTable[o].po_number, "PO", currentYear)}}
      nextNumber == IF currentYearPOs # {} THEN Max(currentYearPOs) + 1 ELSE 1
  IN OrderNumber("PO", currentYear, nextNumber)

\* createPurchaseOrder for a supplier that exists and is active: check that
\* the items exist and are active, generate the PO number, INSERT the order
\* in DRAFT (po_number is unique, created_by references users), INSERT its
\* lines with received_quantity 0, which fails for an order without lines
\* and leaves the order.  The ids are a serial.
createPurchaseOrder(p, items, createdBy) ==
  LET id == Len(purchaseOrdersTable) + 1
      l == [NoLoc EXCEPT !.op = "createPurchaseOrder", !.id = id, !.actor = createdBy,
                         !.created_by = createdBy]
      missingItems == {k \in 1..Len(items) :
                         \/ items[k].item_id \notin DOMAIN itemsTable
                         \/ ~itemsTable[items[k].item_id].is_active}
      poNumber == nextPoNumber
  IN /\ Start(p)
     /\ IF missingItems # {}
          THEN FinishWith(p, "ItemNotFound", l) /\ UNCHANGED poVars
        ELSE IF \E o \in DOMAIN purchaseOrdersTable :
                  purchaseOrdersTable[o].po_number = poNumber
          THEN FinishWith(p, "Conflict", l) /\ UNCHANGED poVars
        ELSE IF ForeignKeyFails(createdBy)
          THEN FinishWith(p, "ForeignKey", l) /\ UNCHANGED poVars
        ELSE /\ purchaseOrdersTable' = Append(purchaseOrdersTable, PurchaseOrderRow(poNumber))
             /\ purchaseOrderItemsTable' =
                  Append(purchaseOrderItemsTable,
                         [k \in 1..Len(items) |->
                            [item_id |-> items[k].item_id, quantity |-> items[k].quantity,
                             received_quantity |-> 0]])
             /\ FinishWith(p, IF Len(items) = 0 THEN "NoValues" ELSE "ok", l)
     /\ UNCHANGED <<itemsTable, stockAdjustmentsTable, nextAdjustmentId, workOrdersTable,
                    tx, fixed>>

\* The calls that create the orders of PoIds.
CreatePurchaseOrderCall(p) ==
  /\ Len(purchaseOrdersTable) + 1 \in PoIds
  /\ \E items \in CreatePurchaseOrderInput, createdBy \in Actors :
       createPurchaseOrder(p, items, createdBy)

(* --------------------------- createWorkOrder -------------------------- *)

\* The items of the input (quantity_planned is not read by any handler).
CreateWorkOrderInput == SeqUpTo([item_id : ItemIds \cup {MissingItem}], MaxLines)

\* wo_number LIKE 'WO-' || currentYear || '-%'.
like(wo_number, prefix, year) ==
  wo_number.prefix = prefix /\ wo_number.year = year

\* generateWONumber: the work order of the year that ORDER BY wo_number DESC
\* LIMIT 1 gives, the number after its first SeqWidth digits, or one when the
\* year has none or the number has fewer digits.
generateWONumber ==
  LET ofYear == {workOrdersTable[w].wo_number.digits :
                   w \in {w \in DOMAIN workOrdersTable :
                            like(workOrdersTable[w].wo_number, "WO", currentYear)}}
      latestWO == CHOOSE d \in ofYear : \A e \in ofYear : ~StringLess(d, e)
      nextNumber == IF ofYear # {} /\ Len(latestWO) >= SeqWidth
                      THEN parseInt(SubSeq(latestWO, 1, SeqWidth)) + 1
                      ELSE 1
  IN OrderNumber("WO", currentYear, nextNumber)

\* createWorkOrder: generate the WO number, then in one transaction INSERT
\* the work order in CREATED (wo_number is unique, created_by references
\* users) and its lines with quantity_used 0 (item_id references items); a
\* failed INSERT rolls the transaction back.
createWorkOrder(p, items, createdBy) ==
  LET id == Len(workOrdersTable) + 1
      l == [NoLoc EXCEPT !.op = "createWorkOrder", !.id = id, !.actor = createdBy,
                         !.created_by = createdBy]
      woNumber == generateWONumber
  IN /\ Start(p)
     /\ IF \E w \in DOMAIN workOrdersTable : workOrdersTable[w].wo_number = woNumber
          THEN FinishWith(p, "Conflict", l) /\ UNCHANGED woVars
        ELSE IF \/ ForeignKeyFails(createdBy)
                \/ \E k \in 1..Len(items) : items[k].item_id \notin DOMAIN itemsTable
          THEN FinishWith(p, "ForeignKey", l) /\ UNCHANGED woVars
        ELSE /\ workOrdersTable' = Append(workOrdersTable, WorkOrderRow(createdBy, woNumber))
             /\ workOrderItemsTable' =
                  Append(workOrderItemsTable,
                         [k \in 1..Len(items) |->
                            [item_id |-> items[k].item_id, quantity_used |-> 0]])
             /\ FinishWith(p, "ok", l)
     /\ UNCHANGED <<itemsTable, nextItemId, stockAdjustmentsTable, nextAdjustmentId, poVars,
                    tx, usersTable, returned, observed, initial_stock>>

(* ------------------------------ deadlocks ----------------------------- *)

\* Request p's next statement waits for a row lock that request q's open
\* transaction holds.
WaitsFor(p, q) ==
  /\ tx[q].active
  /\ \/ /\ pc[p] \in {"cwo_update", "uwo_itemupdate"}
        /\ Head(loc[p].rest).item_id \in tx[q].items
     \/ /\ pc[p] = "cwo_status"
        /\ tx[q].wo[loc[p].id] # NoWorkOrderWrite

\* Two transactions wait for each other: PostgreSQL's deadlock detector makes
\* the statement of one of them fail, its callback throws and it rolls back.
DeadlockDetected(p) ==
  /\ tx[p].active
  /\ \E q \in Procs \ {p} : WaitsFor(p, q) /\ WaitsFor(q, p)
  /\ Rollback(p)
  /\ Finish(p, "Deadlock")
  /\ UNCHANGED <<nextAdjustmentId, poVars, snap, calls, fixed>>

(* --------------------------- specifications --------------------------- *)

\* The item ids a caller may pass: those present and an absent one.
AnyItem == ItemIds \cup {MissingItem}

\* Initial stocks: every item has any stock up to MaxStock.
AnyStocks == [ItemIds -> 0..MaxStock]
\* Initial stocks: all items have the same stock, up to MaxStock.
EqualStocks == {[i \in ItemIds |-> s] : s \in 0..MaxStock}

\* Calls of createStockAdjustment only, one after the other.
AdjInit == InitWith(AnyStocks, {<<>>}, {<<>>}, MaxCalls, TRUE)
AdjNext == CreateStockAdjustmentCall(1, AnyItem) \/ CreateStockAdjustmentStep(1)
AdjSpec == AdjInit /\ [][AdjNext]_vars

\* Two createStockAdjustment calls at a time, their statements interleaved.
ConcAdjInit == InitWith(AnyStocks, {<<>>}, {<<>>}, MaxConcCalls, TRUE)
ConcAdjNext ==
  \E p \in Procs : CreateStockAdjustmentCall(p, AnyItem) \/ CreateStockAdjustmentStep(p)
ConcAdjSpec == ConcAdjInit /\ [][ConcAdjNext]_vars

\* Calls of the two work order entry points, one after the other.
WoInit == InitWith(AnyStocks, SeqUpTo(WorkOrderLine, MaxLines), {<<>>}, MaxCalls, TRUE)
WoNext ==
  \/ CompleteWorkOrderCall(1) \/ CompleteWorkOrderStep(1)
  \/ UpdateWorkOrderCall(1, workOrderStatusEnum \cup {UndefinedStr})
  \/ UpdateWorkOrderStep(1)
WoSpec == WoInit /\ [][WoNext]_vars

\* Calls of updateItem only, one after the other.
ItemInit == InitWith(AnyStocks, {<<>>}, {<<>>}, MaxCalls, TRUE)
ItemNext == UpdateItemCall(1, AnyItem) \/ UpdateItemStep(1)
ItemSpec == ItemInit /\ [][ItemNext]_vars

\* Calls of updatePurchaseOrderStatus with any status, one after the other,
\* on a purchase order whose lines may be partly received.
PoInit == InitWith({[i \in ItemIds |-> MaxStock]}, {<<>>},
                   SeqUpTo(PurchaseOrderLine, MaxLines), MaxCalls, TRUE)
PoNext ==
  \/ UpdatePurchaseOrderStatusCall(1, purchaseOrderStatusEnum)
  \/ UpdatePurchaseOrderStatusStep(1)
PoSpec == PoInit /\ [][PoNext]_vars

\* The database with no purchase order yet.
NoPurchaseOrders ==
  /\ usersTable = KnownUsers
  /\ initial_stock \in EqualStocks
  /\ itemsTable = InitialItems(initial_stock)
  /\ nextItemId = Cardinality(ItemIds) + 1
  /\ returned = [p \in Procs |-> {}]
  /\ stockAdjustmentsTable = {}
  /\ nextAdjustmentId = 1
  /\ workOrdersTable = [w \in WoIds |->
       WorkOrderRow("user-2", OrderNumber("WO", currentYear, w))]
  /\ workOrderItemsTable = [w \in WoIds |-> <<>>]
  /\ purchaseOrdersTable = <<>>
  /\ purchaseOrderItemsTable = <<>>
  /\ pc = [p \in Procs |-> "idle"]
  /\ loc = [p \in Procs |-> NoLoc]
  /\ tx = [p \in Procs |-> NoTx]
  /\ result = [p \in Procs |-> "none"]
  /\ snap = [p \in Procs |-> <<>>]
  /\ calls = MaxCalls
  /\ observed = FALSE

\* Purchase orders from their creation on: createPurchaseOrder and
\* updatePurchaseOrderStatus calls, one after the other.
PoLifeNext ==
  \/ CreatePurchaseOrderCall(1)
  \/ UpdatePurchaseOrderStatusCall(1, purchaseOrderStatusEnum)
  \/ UpdatePurchaseOrderStatusStep(1)
PoLifeSpec == NoPurchaseOrders /\ [][PoLifeNext]_vars

\* The work order and the purchase order of the database that the
\* specifications of all handlers start from: one line each, on item 1.
OneWorkOrderLine == {<<[item_id |-> 1, quantity_used |-> MaxUsed]>>}
OnePurchaseOrderLine ==
  {<<[item_id |-> 1, quantity |-> MaxQty, received_quantity |-> r]>> : r \in {0, MaxQty}}

\* A call of a stock-affecting handler.
Call(p) ==
  \/ CreateStockAdjustmentCall(p, ItemIds)
  \/ UpdateItemCall(p, ItemIds)
  \/ CompleteWorkOrderCall(p)
  \/ UpdateWorkOrderCall(p, {"COMPLETED"})
  \/ UpdatePurchaseOrderStatusCall(p, {"RECEIVED"})

\* The next statement of a running call.
Step(p) ==
  \/ CreateStockAdjustmentStep(p)
  \/ UpdateItemStep(p)
  \/ CompleteWorkOrderStep(p)
  \/ UpdateWorkOrderStep(p)
  \/ UpdatePurchaseOrderStatusStep(p)

\* Calls of the stock-affecting handlers, one after the other.
SeqInit == InitWith(EqualStocks, OneWorkOrderLine, OnePurchaseOrderLine, MaxCalls, FALSE)
SeqNext == Call(1) \/ Step(1)
SeqSpec == SeqInit /\ [][SeqNext]_vars

\* Calls of the stock-affecting handlers by concurrent requests, their
\* statements interleaved.
Init == InitWith(EqualStocks, OneWorkOrderLine, OnePurchaseOrderLine, MaxConcCalls, FALSE)
Next == \E p \in Procs : Call(p) \/ Step(p) \/ DeadlockDetected(p)
Spec == Init /\ [][Next]_vars

\* The catalogue: createItem, updateItem on the fields of the catalogue and
\* getLowStockItems, one after the other.
CatalogInit == InitWith(EqualStocks, {<<>>}, {<<>>}, MaxCalls, TRUE)
CatalogNext ==
  \/ CreateItemCall(1)
  \/ CatalogUpdateItemCall(1, AnyItem) \/ UpdateItemStep(1)
  \/ GetLowStockItemsCall(1)
CatalogSpec == CatalogInit /\ [][CatalogNext]_vars

\* The ledger and its query: createStockAdjustment and getStockAdjustments
\* calls, one after the other.
LedgerInit == InitWith({[i \in ItemIds |-> MaxStock]}, {<<>>}, {<<>>}, MaxLedgerCalls, TRUE)
LedgerNext ==
  \/ CreateStockAdjustmentCall(1, ItemIds) \/ CreateStockAdjustmentStep(1)
  \/ GetStockAdjustmentsCall(1)
LedgerSpec == LedgerInit /\ [][LedgerNext]_vars

\* The database with no order, or with one work order and one purchase
\* order of last year or of this year.
NumberInit ==
  /\ usersTable = KnownUsers
  /\ initial_stock = [i \in ItemIds |-> MaxStock]
  /\ itemsTable = InitialItems(initial_stock)
  /\ nextItemId = Cardinality(ItemIds) + 1
  /\ returned = [p \in Procs |-> {}]
  /\ stockAdjustmentsTable = {}
  /\ nextAdjustmentId = 1
  /\ workOrdersTable \in
       {<<>>} \cup {<<WorkOrderRow("user-2", OrderNumber("WO", y, 1))>> : y \in Years}
  /\ workOrderItemsTable = [w \in DOMAIN workOrdersTable |-> <<>>]
  /\ purchaseOrdersTable \in
       {<<>>} \cup {<<PurchaseOrderRow(OrderNumber("PO", y, 1))>> : y \in Years}
  /\ purchaseOrderItemsTable = [o \in DOMAIN purchaseOrdersTable |-> <<>>]
  /\ pc = [p \in Procs |-> "idle"]
  /\ loc = [p \in Procs |-> NoLoc]
  /\ tx = [p \in Procs |-> NoTx]
  /\ result = [p \in Procs |-> "none"]
  /\ snap = [p \in Procs |-> <<>>]
  /\ calls = MaxCalls
  /\ observed = TRUE

\* Calls that create orders with at most one line, one after the other, up
\* to MaxOrders orders of a kind.
NumberNext ==
  \/ /\ Len(purchaseOrdersTable) < MaxOrders
     /\ \E items \in SeqUpTo([item_id : ItemIds \cup {MissingItem}, quantity : {MaxQty}], 1),
           createdBy \in Actors :
          createPurchaseOrder(1, items, createdBy)
  \/ /\ Len(workOrdersTable) < MaxOrders
     /\ \E items \in SeqUpTo([item_id : ItemIds \cup {MissingItem}], 1), createdBy \in Actors :
          createWorkOrder(1, items, createdBy)
NumberSpec == NumberInit /\ [][NumberNext]_vars

\* Two requests that complete the one work order at a time, through either
\* entry point, their statements interleaved.
ConcWoInit == InitWith({[i \in ItemIds |-> MaxStock]}, OneWorkOrderLine, {<<>>},
                       MaxConcCalls, FALSE)
ConcWoNext ==
  \E p \in Procs :
    \/ CompleteWorkOrderCall(p) \/ CompleteWorkOrderStep(p)
    \/ UpdateWorkOrderCall(p, {"COMPLETED"}) \/ UpdateWorkOrderStep(p)
    \/ DeadlockDetected(p)
ConcWoSpec == ConcWoInit /\ [][ConcWoNext]_vars

\* Requests of a known user, their statements interleaved: request 1
\* receives the one purchase order, request 2 receives it too or adjusts the
\* item of its line.
ConcPoInit == InitWith({[i \in ItemIds |-> MaxStock]}, {<<>>}, OnePurchaseOrderLine,
                       MaxConcCalls, FALSE)
ConcPoNext ==
  \/ \E p \in Procs, id \in PoIds, updatedBy \in KnownUsers \cap Actors :
       updatePurchaseOrderStatus(p, [id |-> id, status |-> "RECEIVED"], updatedBy)
  \/ \E p \in Procs : UpdatePurchaseOrderStatusStep(p)
  \/ \E input \in CreateStockAdjustmentInput({1}), createdBy \in KnownUsers \cap Actors :
       createStockAdjustment(2, input, createdBy)
  \/ CreateStockAdjustmentStep(2)
ConcPoSpec == ConcPoInit /\ [][ConcPoNext]_vars

(* ----------------------------- properties ----------------------------- *)

\* No request is inside a handler.
Quiescent == \A p \in Procs : pc[p] = "idle"

\* The adjustment rows of item i.
RowsOf(i) == {r \in stockAdjustmentsTable : r.item_id = i}

\* The sum of quantity_change over a set of adjustment rows.
RECURSIVE SumChanges(_)
SumChanges(rows) ==
  IF rows = {} THEN 0
  ELSE LET r == CHOOSE x \in rows : TRUE
       IN r.quantity_change + SumChanges(rows \ {r})

\* Request p has finished a call of handler op.
Finished(p, op) == pc[p] = "idle" /\ loc[p].op = op

\* The rows the last call of request p has added.
Added(p) == stockAdjustmentsTable \ snap[p].adjustments

\* The last call of request p has left stocks and adjustment rows as it found them.
InventoryUntouched(p) ==
  /\ itemsTable = snap[p].items
  /\ stockAdjustmentsTable = snap[p].adjustments

\* C1: Conservation.  Whenever every call has run to its end, every item's
\* current_stock is its stock at creation plus the sum of quantity_change
\* over the item's adjustment rows.
Conservation ==
  Quiescent =>
    \A i \in ItemIds :
      itemsTable[i].current_stock = initial_stock[i] + SumChanges(RowsOf(i))

\* C2: Non-negativity.  In every reachable state, whatever the interleaving
\* of the stock-affecting calls, every item's current_stock is >= 0.
NonNegativity == \A i \in ItemIds : itemsTable[i].current_stock >= 0

\* Two requests are both inside a handler, and an item that had stock has
\* been brought to zero by a row with a negative quantity_change.
NonNegativityWitness ==
  /\ \A p \in Procs : pc[p] # "idle"
  /\ \E i \in ItemIds :
       /\ initial_stock[i] > 0
       /\ itemsTable[i].current_stock = 0
       /\ \E r \in RowsOf(i) : r.quantity_change < 0 /\ r.new_stock = 0

\* C3: a createStockAdjustment call on an absent item fails with NotFound,
\* one whose quantity_change would make the stock negative fails with
\* InvalidOperation, and a call that failed in either way has left every
\* item's current_stock and the set of adjustment rows as they were.
FailedAdjustmentRejected ==
  \A p \in Procs :
    Finished(p, "createStockAdjustment") =>
      /\ loc[p].id \notin DOMAIN snap[p].items => result[p] = "NotFound"
      /\ (/\ loc[p].id \in DOMAIN snap[p].items
          /\ snap[p].items[loc[p].id].current_stock + loc[p].qty < 0)
           => result[p] = "InvalidOperation"
      /\ result[p] \in {"NotFound", "InvalidOperation"} => InventoryUntouched(p)

\* A call was rejected for a negative result after earlier calls had written rows.
FailedAdjustmentWitness ==
  \E p \in Procs :
    /\ Finished(p, "createStockAdjustment")
    /\ result[p] = "InvalidOperation"
    /\ loc[p].qty < 0
    /\ RowsOf(loc[p].id) # {}

\* The row of item i written last before row r, as a set (empty for the first).
Preceding(r) ==
  {q \in RowsOf(r.item_id) :
     /\ q.id < r.id
     /\ \A o \in RowsOf(r.item_id) : o.id < r.id => o.id <= q.id}

\* C4: Audit completeness.  A successful createStockAdjustment call adds
\* exactly one row, of its item, with previous_stock the item's stock before
\* the call, new_stock the item's stock after it and their difference the
\* quantity_change; and the rows of an item chain: each previous_stock is
\* the new_stock of the row before it.
AuditCompleteness ==
  /\ \A p \in Procs :
       (Finished(p, "createStockAdjustment") /\ result[p] = "ok") =>
         /\ Cardinality(Added(p)) = 1
         /\ \A r \in Added(p) :
              /\ r.item_id = loc[p].id
              /\ r.previous_stock = snap[p].items[loc[p].id].current_stock
              /\ r.new_stock = itemsTable[loc[p].id].current_stock
              /\ r.new_stock - r.previous_stock = loc[p].qty
              /\ r.quantity_change = loc[p].qty
  /\ Quiescent =>
       \A r \in stockAdjustmentsTable :
         /\ Preceding(r) = {} => r.previous_stock = initial_stock[r.item_id]
         /\ \A q \in Preceding(r) : r.previous_stock = q.new_stock

\* A successful call has added a row with a nonzero change to an item that
\* had a row already.
AuditCompletenessWitness ==
  \E p \in Procs :
    /\ Finished(p, "createStockAdjustment")
    /\ result[p] = "ok"
    /\ loc[p].qty # 0
    /\ \E r \in Added(p) : Preceding(r) # {}

\* The rows in the order f form a chain from stock first to stock last.
IsChain(f, n, first, last) ==
  /\ n = 0 => first = last
  /\ n > 0 => f[1].previous_stock = first /\ f[n].new_stock = last
  /\ \A k \in 1..(n - 1) : f[k + 1].previous_stock = f[k].new_stock

\* C5: concurrent createStockAdjustment calls serialize.  When the calls
\* have ended, each item's rows and final stock are those of running the
\* calls one after the other in some order: the rows can be ordered so that
\* they lead from the initial stock to the current stock, each starting
\* where the one before ended.
AdjustmentsSerialize ==
  Quiescent =>
    \A i \in ItemIds :
      LET n == Cardinality(RowsOf(i))
      IN \E f \in [1..n -> RowsOf(i)] :
           /\ \A j, k \in 1..n : f[j] = f[k] => j = k
           /\ IsChain(f, n, initial_stock[i], itemsTable[i].current_stock)

\* Request p has finished an attempt to complete a work order.
FinishedCompletion(p) ==
  \/ Finished(p, "completeWorkOrder")
  \/ Finished(p, "updateWorkOrder") /\ loc[p].status = "COMPLETED"

\* C6: Atomicity of completion under failure.  When a completion
\* (completeWorkOrder, or updateWorkOrder with status COMPLETED) fails for
\* insufficient stock, every item's current_stock, the set of adjustment
\* rows and the work order are as they were before the call.
CompletionAtomic ==
  \A p \in Procs :
    (FinishedCompletion(p) /\ result[p] = "InsufficientStock") =>
      /\ InventoryUntouched(p)
      /\ workOrdersTable = snap[p].workOrders

\* updateWorkOrder failed on a line after it had updated the work order and
\* processed an earlier line.
CompletionAtomicWitness ==
  \E p \in Procs :
    /\ Finished(p, "updateWorkOrder")
    /\ loc[p].status = "COMPLETED"
    /\ result[p] = "InsufficientStock"
    /\ loc[p].processed > 0

\* C7: Idempotence of completion.  completeWorkOrder on a work order that is
\* COMPLETED fails with the already-completed error, adds no adjustment row
\* and leaves every item's current_stock unchanged.
CompletionIdempotent ==
  \A p \in Procs :
    (/\ Finished(p, "completeWorkOrder")
     /\ loc[p].id \in DOMAIN snap[p].workOrders
     /\ snap[p].workOrders[loc[p].id].status = "COMPLETED") =>
      /\ result[p] = "AlreadyCompleted"
      /\ InventoryUntouched(p)

\* completeWorkOrder was called on a work order whose completion had
\* consumed stock.
CompletionIdempotentWitness ==
  \E p \in Procs :
    /\ Finished(p, "completeWorkOrder")
    /\ loc[p].id \in DOMAIN snap[p].workOrders
    /\ snap[p].workOrders[loc[p].id].status = "COMPLETED"
    /\ \E r \in snap[p].adjustments :
         r.adjustment_type = "CONSUMED" /\ r.reference_id = loc[p].id

\* The CONSUMED rows that reference work order w.
ConsumedBy(w) ==
  {r \in stockAdjustmentsTable :
     /\ r.adjustment_type = "CONSUMED"
     /\ r.reference_type = "work_order"
     /\ r.reference_id = w}

\* C8: consumption fires at most once per work order.  Over any sequence of
\* completeWorkOrder and updateWorkOrder calls, a work order has at most one
\* CONSUMED row for each of its lines with quantity_used > 0.
ConsumedAtMostOnce ==
  \A w \in WoIds :
    Cardinality(ConsumedBy(w)) <=
      Cardinality({k \in 1..Len(workOrderItemsTable[w]) :
                     workOrderItemsTable[w][k].quantity_used > 0})

\* C9: the two completion entry points are equivalent.  Either of them
\* rejects a COMPLETED or CANCELLED work order without any effect, and when
\* it succeeds the CONSUMED rows it adds reference the work order and have
\* the acting user as created_by.
EntryPointsEquivalent ==
  \A p \in Procs :
    (FinishedCompletion(p) /\ loc[p].id \in DOMAIN snap[p].workOrders) =>
      /\ snap[p].workOrders[loc[p].id].status \in {"COMPLETED", "CANCELLED"} =>
           /\ result[p] # "ok"
           /\ InventoryUntouched(p)
           /\ workOrdersTable = snap[p].workOrders
      /\ result[p] = "ok" =>
           \A r \in Added(p) :
             /\ r.adjustment_type = "CONSUMED"
             /\ r.reference_id = loc[p].id
             /\ r.reference_type = "work_order"
             /\ r.created_by = loc[p].actor

\* C10: COMPLETED and CANCELLED are terminal.  No step changes the status of
\* a work order that is COMPLETED or CANCELLED.
TerminalStatuses ==
  [][\A w \in WoIds :
       workOrdersTable[w].status \in {"COMPLETED", "CANCELLED"} =>
         workOrdersTable'[w].status = workOrdersTable[w].status]_vars

\* Request p has finished updatePurchaseOrderStatus on an order that exists.
FinishedStatusUpdate(p) ==
  /\ Finished(p, "updatePurchaseOrderStatus")
  /\ loc[p].id \in DOMAIN snap[p].purchaseOrders

\* The lines of the order of request p's last call, before and after it.
LinesBefore(p) == snap[p].purchaseOrderItems[loc[p].id]
LinesAfter(p) == purchaseOrderItemsTable[loc[p].id]

\* What was still to receive of line k before request p's last call.
Remaining(p, k) == LinesBefore(p)[k].quantity - LinesBefore(p)[k].received_quantity

\* The sum of what was to receive over the lines of item i.
RECURSIVE RemainingOf(_, _, _)
RemainingOf(p, i, k) ==
  IF k = 0 THEN 0
  ELSE RemainingOf(p, i, k - 1)
         + (IF LinesBefore(p)[k].item_id = i THEN Remaining(p, k) ELSE 0)

\* C11: receiving a purchase order.  After a successful transition to
\* RECEIVED every line's received_quantity is its quantity, every item's
\* stock has grown by what remained to receive on its lines, and the rows
\* added are RECEIVED rows that reference the order, one for each line with
\* a remainder > 0, with that remainder as quantity_change.
ReceiptOfRemainder ==
  \A p \in Procs :
    (FinishedStatusUpdate(p) /\ loc[p].status = "RECEIVED" /\ result[p] = "ok") =>
      /\ \A k \in 1..Len(LinesAfter(p)) :
           LinesAfter(p)[k].received_quantity = LinesAfter(p)[k].quantity
      /\ \A i \in ItemIds :
           /\ itemsTable[i].current_stock =
                snap[p].items[i].current_stock + RemainingOf(p, i, Len(LinesBefore(p)))
           /\ \A q \in 1..(MaxQty + 1) :
                Cardinality({r \in Added(p) : r.item_id = i /\ r.quantity_change = q}) =
                Cardinality({k \in 1..Len(LinesBefore(p)) :
                               LinesBefore(p)[k].item_id = i /\ Remaining(p, k) = q})
      /\ \A r \in Added(p) :
           /\ r.adjustment_type = "RECEIVED"
           /\ r.reference_id = loc[p].id
           /\ r.reference_type = "purchase_order"
           /\ r.quantity_change > 0
           /\ r.new_stock - r.previous_stock = r.quantity_change

\* An order with a partly received line and a second line was received.
ReceiptOfRemainderWitness ==
  \E p \in Procs :
    /\ FinishedStatusUpdate(p) /\ loc[p].status = "RECEIVED" /\ result[p] = "ok"
    /\ Len(LinesBefore(p)) > 1
    /\ \E k \in 1..Len(LinesBefore(p)) :
         /\ LinesBefore(p)[k].received_quantity > 0
         /\ Remaining(p, k) > 0

\* Every line of the order was fully received before request p's last call.
FullyReceivedBefore(p) ==
  \A k \in 1..Len(LinesBefore(p)) : Remaining(p, k) = 0

\* C12: Idempotence of receiving.  updatePurchaseOrderStatus with RECEIVED
\* on an order whose lines are all fully received succeeds, adds no
\* adjustment row, changes no stock and leaves every received_quantity.
ReceivingIdempotent ==
  \A p \in Procs :
    (FinishedStatusUpdate(p) /\ loc[p].status = "RECEIVED" /\ FullyReceivedBefore(p)) =>
      /\ result[p] = "ok"
      /\ InventoryUntouched(p)
      /\ purchaseOrderItemsTable = snap[p].purchaseOrderItems

\* An order that was received and then moved to another status was set to
\* RECEIVED again.
ReceivingIdempotentWitness ==
  \E p \in Procs :
    /\ FinishedStatusUpdate(p) /\ loc[p].status = "RECEIVED" /\ FullyReceivedBefore(p)
    /\ snap[p].purchaseOrders[loc[p].id].status # "RECEIVED"
    /\ \E r \in snap[p].adjustments :
         r.adjustment_type = "RECEIVED" /\ r.reference_id = loc[p].id

\* C13: Atomicity of receiving under failure.  When updatePurchaseOrderStatus
\* to RECEIVED fails, the order's status, every received_quantity, every
\* current_stock and the adjustment rows are as before the call.
ReceivingAtomic ==
  \A p \in Procs :
    (FinishedStatusUpdate(p) /\ loc[p].status = "RECEIVED" /\ result[p] # "ok") =>
      /\ purchaseOrdersTable = snap[p].purchaseOrders
      /\ purchaseOrderItemsTable = snap[p].purchaseOrderItems
      /\ InventoryUntouched(p)

\* The place of a status in the lifecycle of a purchase order.
Rank(status) ==
  CASE status = "DRAFT" -> 1
    [] status = "PENDING" -> 2
    [] status = "APPROVED" -> 3
    [] status = "ORDERED" -> 4
    [] status = "RECEIVED" -> 5
    [] status = "CANCELLED" -> 6

\* A change of status the lifecycle allows.
Allowed(from, to) ==
  /\ from \notin {"RECEIVED", "CANCELLED"}
  /\ Rank(to) > Rank(from)

\* C14: Purchase-order lifecycle.  Every change of an order's status moves
\* it forward along DRAFT, PENDING, APPROVED, ORDERED, RECEIVED, or to
\* CANCELLED from a status before RECEIVED; a RECEIVED order does not change
\* status and a CANCELLED order is not received.
PurchaseOrderLifecycle ==
  [][\A o \in DOMAIN purchaseOrdersTable :
       purchaseOrdersTable'[o].status # purchaseOrdersTable[o].status =>
         Allowed(purchaseOrdersTable[o].status, purchaseOrdersTable'[o].status)]_vars

\* C15: for every purchase-order line 0 <= received_quantity <= quantity in
\* every state, and no step decreases a received_quantity.
ReceivedQuantityBounded ==
  /\ [](\A o \in DOMAIN purchaseOrderItemsTable :
          \A k \in 1..Len(purchaseOrderItemsTable[o]) :
            /\ 0 <= purchaseOrderItemsTable[o][k].received_quantity
            /\ purchaseOrderItemsTable[o][k].received_quantity
                 <= purchaseOrderItemsTable[o][k].quantity)
  /\ [][\A o \in DOMAIN purchaseOrderItemsTable :
          \A k \in 1..Len(purchaseOrderItemsTable[o]) :
            purchaseOrderItemsTable'[o][k].received_quantity
              >= purchaseOrderItemsTable[o][k].received_quantity]_vars

\* A created order was received and then set to another status.
ReceivedQuantityBoundedWitness ==
  \E o \in DOMAIN purchaseOrderItemsTable :
    /\ purchaseOrdersTable[o].status \notin {"DRAFT", "RECEIVED"}
    /\ \E k \in 1..Len(purchaseOrderItemsTable[o]) :
         /\ purchaseOrderItemsTable[o][k].received_quantity > 0
         /\ purchaseOrderItemsTable[o][k].received_quantity
              = purchaseOrderItemsTable[o][k].quantity

\* C16: a successful transition to APPROVED sets approved_by to the acting
\* user; a call with a status other than RECEIVED leaves stocks, adjustment
\* rows and every received_quantity; a call with a status other than
\* APPROVED leaves approved_by.
ApprovalFrame ==
  \A p \in Procs :
    FinishedStatusUpdate(p) =>
      /\ (loc[p].status = "APPROVED" /\ result[p] = "ok") =>
           purchaseOrdersTable[loc[p].id].approved_by = loc[p].actor
      /\ loc[p].status # "RECEIVED" =>
           /\ InventoryUntouched(p)
           /\ purchaseOrderItemsTable = snap[p].purchaseOrderItems
      /\ loc[p].status # "APPROVED" =>
           purchaseOrdersTable[loc[p].id].approved_by
             = snap[p].purchaseOrders[loc[p].id].approved_by

\* An approved order with lines still to receive was moved on by another
\* caller to a status that is neither APPROVED nor RECEIVED.
ApprovalFrameWitness ==
  \E p \in Procs :
    /\ FinishedStatusUpdate(p) /\ result[p] = "ok"
    /\ loc[p].status \notin {"APPROVED", "RECEIVED"}
    /\ purchaseOrdersTable[loc[p].id].approved_by \notin {NullStr, loc[p].actor}
    /\ ~FullyReceivedBefore(p)

\* Request p has finished updateItem on an item that exists.
FinishedUpdateItem(p) ==
  /\ Finished(p, "updateItem")
  /\ loc[p].id \in DOMAIN snap[p].items

\* C17: stock edits through updateItem are audited.  An updateItem call
\* whose current_stock is given and differs from the stored value adds
\* exactly one ADJUSTMENT row, from the old stock to the given stock; a call
\* that omits current_stock or gives the stored value adds no row and leaves
\* current_stock.
UpdateItemAudited ==
  \A p \in Procs :
    FinishedUpdateItem(p) =>
      LET old == snap[p].items[loc[p].id].current_stock
          given == loc[p].qty
      IN IF given # Undefined /\ given # old
           THEN /\ Cardinality(Added(p)) = 1
                /\ \A r \in Added(p) :
                     /\ r.item_id = loc[p].id
                     /\ r.adjustment_type = "ADJUSTMENT"
                     /\ r.previous_stock = old
                     /\ r.new_stock = given
                     /\ r.quantity_change = given - old
           ELSE /\ Added(p) = {}
                /\ itemsTable = snap[p].items

\* C18: updateItem changes a stock and writes its adjustment row as one
\* atomic unit.  In every state each item's current_stock is its initial
\* stock plus the changes of its rows, and an updateItem call that failed
\* has left items and rows as before the call.
UpdateItemAtomic ==
  /\ \A i \in ItemIds :
       itemsTable[i].current_stock = initial_stock[i] + SumChanges(RowsOf(i))
  /\ \A p \in Procs :
       (Finished(p, "updateItem") /\ result[p] # "ok") => InventoryUntouched(p)

\* C19: no inventory effect from cancelled work orders.  completeWorkOrder
\* on a CANCELLED work order fails with the invalid-state error, and no call
\* of completeWorkOrder or updateWorkOrder on a CANCELLED work order changes
\* a current_stock or adds an adjustment row.
CancelledNoEffect ==
  \A p \in Procs :
    (/\ Finished(p, "completeWorkOrder") \/ Finished(p, "updateWorkOrder")
     /\ loc[p].id \in DOMAIN snap[p].workOrders
     /\ snap[p].workOrders[loc[p].id].status = "CANCELLED") =>
      /\ Finished(p, "completeWorkOrder") => result[p] = "InvalidState"
      /\ InventoryUntouched(p)

\* C20: the adjustment ledger is append-only.  Every step leaves the rows
\* that exist in the table, with all their fields.
LedgerAppendOnly ==
  [][stockAdjustmentsTable \subseteq stockAdjustmentsTable']_vars

\* Two requests have written rows, through a transaction and outside one.
LedgerAppendOnlyWitness ==
  /\ \E r \in stockAdjustmentsTable : r.adjustment_type = "CONSUMED"
  /\ \E r \in stockAdjustmentsTable : r.adjustment_type # "CONSUMED"

FinishedCompleting(p) ==
  /\ FinishedCompletion(p)
  /\ loc[p].id \in DOMAIN snap[p].workOrders
  /\ snap[p].workOrders[loc[p].id].status # "COMPLETED"

\* The lines of the work order of request p's last call.
WoLines(p) == workOrderItemsTable[loc[p].id]

\* The places of the lines of item i with quantity_used > 0.
UsedLines(p, i) ==
  {k \in 1..Len(WoLines(p)) : WoLines(p)[k].item_id = i /\ WoLines(p)[k].quantity_used > 0}

RECURSIVE UsedOf(_, _, _)
UsedOf(p, i, k) ==
  IF k = 0 THEN 0
  ELSE UsedOf(p, i, k - 1)
         + (IF WoLines(p)[k].item_id = i THEN WoLines(p)[k].quantity_used ELSE 0)

\* Every item has the stock that all its lines together use.
StockCovers(p) ==
  \A i \in ItemIds : UsedOf(p, i, Len(WoLines(p))) <= snap[p].items[i].current_stock

RECURSIVE UsedBy(_, _, _)
UsedBy(w, i, k) ==
  IF k = 0 THEN 0
  ELSE UsedBy(w, i, k - 1)
         + (IF workOrderItemsTable[w][k].item_id = i
              THEN workOrderItemsTable[w][k].quantity_used ELSE 0)

\* C28: two concurrent completions of one work order consume inventory
\* once.  Whatever the interleaving, the work order has at most one CONSUMED
\* row for each line with quantity_used > 0, and when both calls have ended
\* every item's current_stock is its starting stock plus the quantity_change
\* of its rows, which is the starting stock minus quantity_used once when
\* the work order was consumed.
ConcurrentCompletionOnce ==
  /\ ConsumedAtMostOnce
  /\ Quiescent =>
       \A i \in ItemIds :
         /\ itemsTable[i].current_stock = initial_stock[i] + SumChanges(RowsOf(i))
         /\ \A w \in WoIds :
              ConsumedBy(w) # {} =>
                itemsTable[i].current_stock =
                  initial_stock[i] - UsedBy(w, i, Len(workOrderItemsTable[w]))

\* The RECEIVED rows that reference purchase order o.
ReceivedBy(o) ==
  {r \in stockAdjustmentsTable :
     /\ r.adjustment_type = "RECEIVED"
     /\ r.reference_type = "purchase_order"
     /\ r.reference_id = o}

\* The sum of the ordered quantity over the first k lines of purchase order o.
RECURSIVE OrderedBy(_, _)
OrderedBy(o, k) ==
  IF k = 0 THEN 0 ELSE OrderedBy(o, k - 1) + purchaseOrderItemsTable[o][k].quantity

\* C29: concurrent receipts of one purchase order, and a receipt concurrent
\* with a createStockAdjustment on an item of the order, serialize per item.
\* Whatever the interleaving, the order has at most one RECEIVED row for each
\* line and its rows add no more than the lines order, and when the calls
\* have ended every item's current_stock is its starting stock plus the sum
\* of quantity_change over its rows.
ReceiptsSerialize ==
  /\ \A o \in PoIds :
       /\ Cardinality(ReceivedBy(o)) <= Len(purchaseOrderItemsTable[o])
       /\ SumChanges(ReceivedBy(o)) <= OrderedBy(o, Len(purchaseOrderItemsTable[o]))
  /\ Quiescent =>
       \A i \in ItemIds :
         itemsTable[i].current_stock = initial_stock[i] + SumChanges(RowsOf(i))

\* The SKUs of a table of items.
SkusOf(items) == {items[i].sku : i \in DOMAIN items}

SkuUnique ==
  /\ \A i, j \in DOMAIN itemsTable : itemsTable[i].sku = itemsTable[j].sku => i = j
  /\ \A p \in Procs :
       (Finished(p, "createItem") /\ loc[p].sku \in SkusOf(snap[p].items)) =>
         /\ result[p] = "Conflict"
         /\ InventoryUntouched(p)

\* A createItem call with the SKU of an item created before it was refused.
SkuUniqueWitness ==
  \E p \in Procs :
    /\ Finished(p, "createItem") /\ result[p] = "Conflict"
    /\ \E i \in DOMAIN itemsTable \ ItemIds : itemsTable[i].sku = loc[p].sku

\* C25: getLowStockItems returns exactly the active items with current_stock
\* <= min_stock_level * threshold_multiplier, the multiplier being a whole
\* number or a fraction: no inactive item, and an item with min_stock_level
\* 0 only when it has no stock.  It changes nothing.
LowStockExact ==
  \A p \in Procs :
    Finished(p, "getLowStockItems") =>
      LET m == loc[p].threshold_multiplier
      IN /\ \A i \in DOMAIN itemsTable :
              i \in returned[p] <=>
                /\ itemsTable[i].is_active
                /\ itemsTable[i].current_stock * m.den <= itemsTable[i].min_stock_level * m.num
         /\ \A i \in returned[p] :
              /\ i \in DOMAIN itemsTable
              /\ itemsTable[i].is_active
              /\ itemsTable[i].min_stock_level = 0 => itemsTable[i].current_stock = 0
         /\ InventoryUntouched(p)

\* A query with a fractional multiplier returned an item with stock and left
\* out an inactive item without stock.
LowStockExactWitness ==
  \E p \in Procs :
    /\ Finished(p, "getLowStockItems")
    /\ loc[p].threshold_multiplier.den > 1
    /\ \E i \in returned[p] : itemsTable[i].current_stock > 0
    /\ \E i \in DOMAIN itemsTable \ returned[p] :
         ~itemsTable[i].is_active /\ itemsTable[i].current_stock = 0

\* The rows that a query with the given itemId is to return.
RowsAskedFor(itemId) ==
  IF itemId = Undefined THEN stockAdjustmentsTable ELSE RowsOf(itemId)

\* C26: getStockAdjustments returns every adjustment row, or every row of
\* the item when an item id is given (none for an id that no item has),
\* each once, a newer row before an older one; it changes neither the stock
\* of an item nor the ledger.
LedgerQueryExact ==
  \A p \in Procs :
    Finished(p, "getStockAdjustments") =>
      LET rows == returned[p]
      IN /\ {rows[k] : k \in 1..Len(rows)} = RowsAskedFor(loc[p].id)
         /\ Len(rows) = Cardinality(RowsAskedFor(loc[p].id))
         /\ \A k \in 1..(Len(rows) - 1) : created_at(rows[k]) > created_at(rows[k + 1])
         /\ loc[p].id = MissingItem => rows = <<>>
         /\ InventoryUntouched(p)

\* A query for one item returned its two rows and not the row of another.
LedgerQueryExactWitness ==
  \E p \in Procs :
    /\ Finished(p, "getStockAdjustments")
    /\ loc[p].id \in ItemIds
    /\ Len(returned[p]) > 1
    /\ stockAdjustmentsTable \ RowsOf(loc[p].id) # {}

\* The sequence part of an order number.
SequenceOf(number) == parseInt(number.digits)

\* The number that follows the numbers of a table of orders in a year: one
\* more than the highest sequence of the year, 1 when the year has none.
Following(numbers, prefix) ==
  LET ofYear == {SequenceOf(n) : n \in {n \in numbers : n.year = currentYear}}
  IN [prefix |-> prefix, year |-> currentYear,
      seq |-> IF ofYear = {} THEN 1 ELSE Max(ofYear) + 1]

\* The order numbers of a table of orders.
PoNumbers(orders) == {orders[o].po_number : o \in DOMAIN orders}
WoNumbers(orders) == {orders[w].wo_number : w \in DOMAIN orders}

\* C27: generated order numbers are unique.  No two purchase orders share a
\* po_number and no two work orders a wo_number, and the order that a
\* createPurchaseOrder (createWorkOrder) call stores has the prefix, the
\* year, and as its sequence, written in SeqWidth digits, one more than the
\* highest sequence stored for the year before the call, 1 when there was
\* none.
OrderNumbersUnique ==
  /\ \A i, j \in DOMAIN purchaseOrdersTable :
       purchaseOrdersTable[i].po_number = purchaseOrdersTable[j].po_number => i = j
  /\ \A i, j \in DOMAIN workOrdersTable :
       workOrdersTable[i].wo_number = workOrdersTable[j].wo_number => i = j
  /\ \A p \in Procs :
       /\ (Finished(p, "createPurchaseOrder")
            /\ DOMAIN purchaseOrdersTable # DOMAIN snap[p].purchaseOrders) =>
           LET new == purchaseOrdersTable[loc[p].id].po_number
               next == Following(PoNumbers(snap[p].purchaseOrders), "PO")
           IN /\ new.prefix = next.prefix /\ new.year = next.year
              /\ SequenceOf(new) = next.seq
              /\ Len(new.digits) = SeqWidth
       /\ (Finished(p, "createWorkOrder")
            /\ DOMAIN workOrdersTable # DOMAIN snap[p].workOrders) =>
           LET new == workOrdersTable[loc[p].id].wo_number
               next == Following(WoNumbers(snap[p].workOrders), "WO")
           IN /\ new.prefix = next.prefix /\ new.year = next.year
              /\ SequenceOf(new) = next.seq
              /\ Len(new.digits) = SeqWidth

\* Beside an order of last year, two purchase orders and a work order of
\* this year were created, the second purchase order with sequence 2.
OrderNumbersUniqueWitness ==
  /\ \E o \in DOMAIN purchaseOrdersTable :
       purchaseOrdersTable[o].po_number.year # currentYear
  /\ \E o \in DOMAIN purchaseOrdersTable :
       /\ purchaseOrdersTable[o].po_number.year = currentYear
       /\ SequenceOf(purchaseOrdersTable[o].po_number) = 2
  /\ \E w \in DOMAIN workOrdersTable :
       /\ workOrdersTable[w].wo_number.year = currentYear
       /\ Finished(1, "createWorkOrder") /\ loc[1].id = w

====
